---- MODULE Spec2Model ----
(***************************************************************************)
(* portcheck (src/portcheck/main.go): a bounded-concurrency TCP connect    *)
(* scanner.  getPorts/getAddresses expand the command line into a list of  *)
(* host:port endpoints; main dials every endpoint from its own goroutine,  *)
(* with a buffered channel (workerChan) as counting semaphore and a        *)
(* sync.WaitGroup to drain the run.                                        *)
(*                                                                         *)
(* Strings are modelled as sequences of one-character strings, so that     *)
(* splitting, parsing and formatting are computed, not assumed.            *)
(***************************************************************************)
EXTENDS Integers, Sequences, FiniteSets, TLC

VARIABLES
    osArgs,      \* os.Args: <<program, host, ports, ...>>
    pc,          \* position of main: "start", "loop", "go", "wait", "done", "fatal"
    addresses,   \* the slice returned by getAddresses
    idx,         \* number of completed iterations of the range loop of main
    workers,     \* cap(workerChan)
    workerChan,  \* number of tokens buffered in workerChan
    wg,          \* the counter of the sync.WaitGroup
    att,         \* att[i]: the attempt of loop iteration i (once its slot is taken)
    stdout,      \* the lines written to os.Stdout, in order
    stderr       \* the lines written to os.Stderr, in order

vars == <<osArgs, pc, addresses, idx, workers, workerChan, wg, att, stdout, stderr>>

----------------------------------------------------------------------------
(* Program constants *)

portRangeEnd == 65535

WorkersPerCPU == 10

----------------------------------------------------------------------------
(* Bounds of the model *)

\* Low port numbers 0..MaxSmall appear in the enumerated tokens (beside the
\* numbers around portRangeEnd).
MaxSmall == 3

\* Most comma-separated tokens in a port argument.
MaxTokens == 2

\* Longest endpoint list that main is run on.
MaxAddrs == 3

\* Longest endpoint list of the runs checked for progress under fairness.
MaxFairAddrs == 2

\* Capacities 1..MaxWorkers of workerChan are explored (beside NumCPU*10).
MaxWorkers == 2

----------------------------------------------------------------------------
(* Strings *)

Digits == <<"0", "1", "2", "3", "4", "5", "6", "7", "8", "9">>

DigitSet == {Digits[k] : k \in 1..10}

DigitVal(c) == (CHOOSE k \in 1..10 : Digits[k] = c) - 1

\* strings.Split(s, sep) for a one-character separator: the pieces between
\* the separators; the empty string yields one empty piece.
RECURSIVE SplitFrom(_, _, _, _)
SplitFrom(s, sep, k, cur) ==
    IF k > Len(s) THEN <<cur>>
    ELSE IF s[k] = sep THEN <<cur>> \o SplitFrom(s, sep, k + 1, <<>>)
    ELSE SplitFrom(s, sep, k + 1, Append(cur, s[k]))

Split(s, sep) == SplitFrom(s, sep, 1, <<>>)

\* The value of a sequence of decimal digits.
RECURSIVE DecValue(_)
DecValue(ds) ==
    IF Len(ds) = 0 THEN 0
    ELSE DecValue(SubSeq(ds, 1, Len(ds) - 1)) * 10 + DigitVal(ds[Len(ds)])

\* strconv.Atoi: an optional sign followed by one or more decimal digits;
\* anything else is a syntax error (value 0).  The enumerated inputs have at
\* most six digits, so the int64 range error of Atoi is out of reach.
Atoi(s) ==
    LET signed == Len(s) > 0 /\ s[1] \in {"+", "-"}
        body   == IF signed THEN Tail(s) ELSE s
        ok     == Len(body) > 0 /\ \A k \in 1..Len(body) : body[k] \in DigitSet
    IN  IF ~ok THEN [err |-> TRUE, val |-> 0]
        ELSE [err |-> FALSE,
              val |-> IF signed /\ s[1] = "-" THEN 0 - DecValue(body)
                      ELSE DecValue(body)]

\* strconv.FormatInt(i, 10)
RECURSIVE FormatNat(_)
FormatNat(n) ==
    IF n < 10 THEN <<Digits[n + 1]>>
    ELSE Append(FormatNat(n \div 10), Digits[(n % 10) + 1])

FormatInt(i) == IF i < 0 THEN <<"-">> \o FormatNat(0 - i) ELSE FormatNat(i)

\* net.JoinHostPort: a host holding a colon or a percent sign is bracketed.
JoinHostPort(host, port) ==
    IF \E k \in 1..Len(host) : host[k] \in {":", "%"}
    THEN <<"[">> \o host \o <<"]", ":">> \o port
    ELSE host \o <<":">> \o port

----------------------------------------------------------------------------
(* The port-set expander *)

\* A []string that may be nil.
NilSlice == [isNil |-> TRUE, elems |-> <<>>]

Slice(elems) == [isNil |-> FALSE, elems |-> elems]

\* The second range check of getPorts (main.go line 37).
EndRejected(start, end) ==
    end.err \/ start.val > portRangeEnd \/ start.val < 1

\* Faulty variant of StartRejected: port 0 passes (start < 0).
StartRejectedBelowZero(start) ==
    start.err \/ start.val > portRangeEnd \/ start.val < 0

\* Faulty variant of StartRejected: port 65535 is turned away (start >= portRangeEnd).
StartRejectedAtEnd(start) ==
    start.err \/ start.val >= portRangeEnd \/ start.val < 1

\* The first range check of getPorts (main.go line 27).
StartRejected(start) ==
    start.err \/ start.val > portRangeEnd \/ start.val < 1

\* Faulty variant of RangeLoop: the loop stops before end (i < end).
RangeLoopExclusive(start, end) ==
    IF end <= start THEN <<>>
    ELSE <<>> \o [k \in 1..(end - start) |-> FormatInt(start + k - 1)]

\* The loop of getPorts (main.go lines 40-43): toReturn starts empty and
\* FormatInt(i) is appended for i = start, ..., end.
RangeLoop(start, end) ==
    IF end < start THEN <<>>
    ELSE <<>> \o [k \in 1..(end - start + 1) |-> FormatInt(start + k - 1)]

\* Faulty variant of getPorts: a single port is returned as the decimal of
\* the parsed number.
getPortsCanonical(r) ==
    LET s     == Split(r, "-")
        start == Atoi(s[1])
    IN  IF StartRejected(start) THEN NilSlice
        ELSE IF Len(s) = 1 THEN Slice(<<FormatInt(start.val)>>)
        ELSE IF Len(s) > 2 THEN NilSlice
        ELSE LET end == Atoi(s[2])
             IN  IF EndRejected(start, end) THEN NilSlice
                 ELSE Slice(RangeLoop(start.val, end.val))

getPorts(r) ==
    LET s     == Split(r, "-")
        start == Atoi(s[1])
    IN  IF StartRejected(start) THEN NilSlice
        ELSE IF Len(s) = 1 THEN Slice(<<s[1]>>)
        ELSE IF Len(s) > 2 THEN NilSlice
        ELSE LET end == Atoi(s[2])
             IN  IF EndRejected(start, end) THEN NilSlice
                 ELSE Slice(RangeLoop(start.val, end.val))

\* The values of `for i := range portRangeEnd`, less the skipped i == 0.
FullScanPorts ==
    SelectSeq([k \in 1..portRangeEnd |-> k - 1], LAMBDA i : i # 0)

\* Faulty variant of AppendTokens: an address already in the list is not
\* appended again.
RECURSIVE AppendTokensUnique(_, _, _, _)
AppendTokensUnique(host, tokens, k, acc) ==
    IF k > Len(tokens) THEN acc
    ELSE LET r == getPorts(tokens[k])
         IN  AppendTokensUnique(host, tokens, k + 1,
                 IF r.isNil THEN acc
                 ELSE acc \o SelectSeq(<<>> \o [j \in 1..Len(r.elems) |->
                                                   JoinHostPort(host, r.elems[j])],
                                       LAMBDA a : \A n \in 1..Len(acc) : acc[n] # a))

\* The loop over the comma-separated tokens (main.go lines 65-75).
RECURSIVE AppendTokens(_, _, _, _)
AppendTokens(host, tokens, k, acc) ==
    IF k > Len(tokens) THEN acc
    ELSE LET r == getPorts(tokens[k])
         IN  AppendTokens(host, tokens, k + 1,
                 IF r.isNil THEN acc
                 ELSE acc \o [j \in 1..Len(r.elems) |->
                                 JoinHostPort(host, r.elems[j])])

\* getAddresses past its argument check: args has a host.
getAddresses(args) ==
    LET host == args[2]
        all  == IF Len(args) = 2
                THEN [k \in 1..Len(FullScanPorts) |->
                         JoinHostPort(host, FormatInt(FullScanPorts[k]))]
                ELSE <<>>
    IN  IF Len(args) > 2
        THEN AppendTokens(host, Split(args[3], ","), 1, all)
        ELSE all

----------------------------------------------------------------------------
(* The command lines explored *)

RECURSIVE Join(_, _)
Join(parts, sep) ==
    IF Len(parts) = 0 THEN <<>>
    ELSE IF Len(parts) = 1 THEN parts[1]
    ELSE parts[1] \o <<sep>> \o Join(Tail(parts), sep)

Prog == <<"p">>

Hosts == { <<"h">>, <<":", ":", "1">> }

\* The low port numbers, and the numbers around the end of the port range.
Numbers ==
    (0..MaxSmall) \cup {portRangeEnd - 1, portRangeEnd, portRangeEnd + 1}

NumTexts == {FormatInt(n) : n \in Numbers}

\* Texts that are no canonical decimal: empty, letters, signed, zero-padded.
OddTexts == { <<>>, <<"a">>, <<"+", "2">>, <<"0", "2">>, <<"1", "a">> }

Pieces == NumTexts \cup OddTexts

\* Every token of one, two or three pieces separated by "-".
Tokens ==
    Pieces
    \cup {Join(<<a, b>>, "-") : a \in Pieces, b \in Pieces}
    \cup {Join(<<a, b, c>>, "-") : a \in Pieces, b \in Pieces, c \in Pieces}

\* The tokens combined into comma-separated lists: "", "a", "0", "65536",
\* "5-3", "1-2-3", "1", "1-2".
SiblingTokens ==
    { <<>>, <<"a">>, <<"0">>, FormatInt(portRangeEnd + 1),
      <<"5", "-", "3">>, <<"1", "-", "2", "-", "3">>, <<"1">>,
      <<"1", "-", "2">> }

Lists(S, lo, hi) ==
    UNION {{Join(ts, ",") : ts \in [1..n -> S]} : n \in lo..hi}

\* Every token with the plain host; the pieces and the lists with each host.
ExpandArgs ==
    { <<Prog>> }
    \cup {<<Prog, h>> : h \in Hosts}
    \cup {<<Prog, <<"h">>, p>> : p \in Tokens}
    \cup {<<Prog, h, p>> : h \in Hosts,
                           p \in Pieces \cup Lists(SiblingTokens, 2, MaxTokens)}
    \cup {<<Prog, h, <<"1">>, <<"x">>>> : h \in Hosts}

\* The tokens of the command lines main is run on: "", "1", "1-2", "5-3".
RunTokens ==
    { <<>>, <<"1">>, <<"1", "-", "2">>, <<"5", "-", "3">> }

\* main is run without a host, and with one or two of these tokens as
\* port argument, where that makes at most MaxAddrs endpoints.
RunArgs ==
    { <<Prog>> }
    \cup {a \in {<<Prog, <<"h">>, p>> :
                    p \in RunTokens
                          \cup {Join(<<t, u>>, ",") : t \in RunTokens, u \in RunTokens}} :
             Len(getAddresses(a)) <= MaxAddrs}

\* runtime.NumCPU() * 10 on a host with one CPU, and the small capacities
\* that a short endpoint list can saturate.
WorkerCounts == (1..MaxWorkers) \cup {WorkersPerCPU}

----------------------------------------------------------------------------
(* main *)

UsageLine ==
    "Not enough arguments. Usage: portcheck HOST [port|port-range|port1,port2,...]"

CloseErrorLine == "error closing connection"

\* fmt.Fprintf(os.Stdout, "SUCCESS: %s\n", address)
SuccessLine(address) ==
    <<"S", "U", "C", "C", "E", "S", "S", ":", " ">> \o address \o <<"\n">>

DialResults == {"success", "refused", "timeout"}

Start(argSet, workerSet) ==
    /\ osArgs \in argSet
    /\ workers \in workerSet
    /\ pc = "start"
    /\ addresses = <<>>
    /\ idx = 0
    /\ workerChan = 0
    /\ wg = 0
    /\ att = <<>>
    /\ stdout = <<>>
    /\ stderr = <<>>

Init == Start(RunArgs, WorkerCounts)

InitExpand == Start(ExpandArgs, {WorkersPerCPU})

\* addresses := getAddresses(), with a host on the command line.
GetAddresses ==
    /\ pc = "start"
    /\ Len(osArgs) >= 2
    /\ addresses' = getAddresses(osArgs)
    /\ pc' = "loop"
    /\ UNCHANGED <<osArgs, idx, workers, workerChan, wg, att, stdout, stderr>>

\* Faulty variant of Fatal: the usage is logged and getAddresses returns nil
\* instead of ending the process.
FatalReturns ==
    /\ pc = "start"
    /\ Len(osArgs) < 2
    /\ stderr' = Append(stderr, UsageLine)
    /\ pc' = "loop"
    /\ UNCHANGED <<osArgs, addresses, idx, workers, workerChan, wg, att, stdout>>

\* getAddresses without a host: log.Fatal writes the usage and exits.
Fatal ==
    /\ pc = "start"
    /\ Len(osArgs) < 2
    /\ stderr' = Append(stderr, UsageLine)
    /\ pc' = "fatal"
    /\ UNCHANGED <<osArgs, addresses, idx, workers, workerChan, wg, att, stdout>>

\* The attempt of one loop iteration: its position in the function literal,
\* the address of the iteration and the outcome of the dial.  History: dials
\* counts the returns of DialTimeout and dialed is the address it was called
\* with; rank is the attempt's place, by the
\* time its dial returned, among the attempts that hold a connection and
\* have not yet written their line (0: not among them).
NewAttempt(address) ==
    [pc |-> "admitted", address |-> address, result |-> "none",
     dials |-> 0, dialed |-> <<>>, rank |-> 0]

\* Faulty variant of Acquire: the send waits until no dial is under way.
AcquireSerial ==
    /\ pc = "loop"
    /\ idx < Len(addresses)
    /\ workerChan < workers
    /\ \A i \in 1..Len(att) : att[i].pc # "dial"
    /\ workerChan' = workerChan + 1
    /\ att' = Append(att, NewAttempt(addresses[idx + 1]))
    /\ pc' = "go"
    /\ UNCHANGED <<osArgs, addresses, idx, workers, wg, stdout, stderr>>

\* Faulty variant of Acquire: the loop ranges over the addresses from the last.
AcquireReversed ==
    /\ pc = "loop"
    /\ idx < Len(addresses)
    /\ workerChan < workers
    /\ workerChan' = workerChan + 1
    /\ att' = Append(att, NewAttempt(addresses[Len(addresses) - idx]))
    /\ pc' = "go"
    /\ UNCHANGED <<osArgs, addresses, idx, workers, wg, stdout, stderr>>

\* Faulty variant of Acquire: the send does not wait for room in the channel.
AcquireUnbounded ==
    /\ pc = "loop"
    /\ idx < Len(addresses)
    /\ workerChan' = workerChan + 1
    /\ att' = Append(att, NewAttempt(addresses[idx + 1]))
    /\ pc' = "go"
    /\ UNCHANGED <<osArgs, addresses, idx, workers, wg, stdout, stderr>>

\* workerChan <- struct{}{} of the next iteration: blocks while the channel is full.
Acquire ==
    /\ pc = "loop"
    /\ idx < Len(addresses)
    /\ workerChan < workers
    /\ workerChan' = workerChan + 1
    /\ att' = Append(att, NewAttempt(addresses[idx + 1]))
    /\ pc' = "go"
    /\ UNCHANGED <<osArgs, addresses, idx, workers, wg, stdout, stderr>>

\* wg.Go(func() {...}): the counter is raised and the goroutine started.
Spawn ==
    /\ pc = "go"
    /\ wg' = wg + 1
    /\ att' = [att EXCEPT ![idx + 1].pc = "dial"]
    /\ idx' = idx + 1
    /\ pc' = "loop"
    /\ UNCHANGED <<osArgs, addresses, workers, workerChan, stdout, stderr>>

\* Faulty variant of ExitLoop: the loop may stop one endpoint short.
ExitLoopEarly ==
    /\ pc = "loop"
    /\ idx >= Len(addresses) - 1
    /\ pc' = "wait"
    /\ UNCHANGED <<osArgs, addresses, idx, workers, workerChan, wg, att, stdout, stderr>>

\* The range loop is exhausted.
ExitLoop ==
    /\ pc = "loop"
    /\ idx >= Len(addresses)
    /\ pc' = "wait"
    /\ UNCHANGED <<osArgs, addresses, idx, workers, workerChan, wg, att, stdout, stderr>>

\* Faulty variant of Wait: main returns without waiting for the counter.
WaitNoDrain ==
    /\ pc = "wait"
    /\ pc' = "done"
    /\ UNCHANGED <<osArgs, addresses, idx, workers, workerChan, wg, att, stdout, stderr>>

\* wg.Wait() returns once the counter is zero; main returns.
Wait ==
    /\ pc = "wait"
    /\ wg = 0
    /\ pc' = "done"
    /\ UNCHANGED <<osArgs, addresses, idx, workers, workerChan, wg, att, stdout, stderr>>

\* The attempts that hold a connection and have not yet written their line.
Unreported == {j \in 1..Len(att) : att[j].pc = "open"}

\* Faulty variant of DialReturn: the conn != nil test is lost, a failed dial reports too.
DialReturnAlwaysOpen(i, r) ==
    /\ att[i].pc = "dial"
    /\ att' = [att EXCEPT ![i].pc = "open",
                          ![i].result = r,
                          ![i].dials = @ + 1,
                          ![i].dialed = att[i].address,
                          ![i].rank = IF r = "success" THEN Cardinality(Unreported) + 1 ELSE 0]
    /\ UNCHANGED <<osArgs, pc, addresses, idx, workers, workerChan, wg, stdout, stderr>>

\* Faulty variant of DialReturn: the slot is given back as soon as the dial
\* has returned.
DialReturnReleases(i, r) ==
    /\ att[i].pc = "dial"
    /\ workerChan > 0
    /\ workerChan' = workerChan - 1
    /\ att' = [att EXCEPT ![i].pc = IF r = "success" THEN "open" ELSE "released",
                          ![i].result = r,
                          ![i].dials = @ + 1,
                          ![i].dialed = att[i].address,
                          ![i].rank = IF r = "success" THEN Cardinality(Unreported) + 1 ELSE 0]
    /\ UNCHANGED <<osArgs, pc, addresses, idx, workers, wg, stdout, stderr>>

\* Faulty variant of DialReturn: a dial that failed is made again.
DialReturnRetry(i, r) ==
    /\ att[i].pc = "dial"
    /\ att' = [att EXCEPT ![i].pc = IF r = "success" THEN "open"
                                    ELSE IF att[i].dials = 0 THEN "dial" ELSE "ret",
                          ![i].result = r,
                          ![i].dials = @ + 1,
                          ![i].dialed = att[i].address,
                          ![i].rank = IF r = "success" THEN Cardinality(Unreported) + 1 ELSE 0]
    /\ UNCHANGED <<osArgs, pc, addresses, idx, workers, workerChan, wg, stdout, stderr>>

\* net.DialTimeout returns: a connection, a refusal or a timeout.
DialReturn(i, r) ==
    /\ att[i].pc = "dial"
    /\ att' = [att EXCEPT ![i].pc = IF r = "success" THEN "open" ELSE "ret",
                          ![i].result = r,
                          ![i].dials = @ + 1,
                          ![i].dialed = att[i].address,
                          ![i].rank = IF r = "success" THEN Cardinality(Unreported) + 1 ELSE 0]
    /\ UNCHANGED <<osArgs, pc, addresses, idx, workers, workerChan, wg, stdout, stderr>>

\* Faulty variant of Report: the function literal reads the one address
\* variable of the loop, which main has meanwhile set for a later iteration.
ReportSharedVariable(i) ==
    /\ att[i].pc = "open"
    /\ stdout' = Append(stdout, SuccessLine(addresses[IF pc = "go" THEN idx + 1 ELSE idx]))
    /\ att' = [j \in 1..Len(att) |->
                  IF j = i THEN [att[j] EXCEPT !.pc = "printed", !.rank = 0]
                  ELSE IF att[j].rank > att[i].rank THEN [att[j] EXCEPT !.rank = @ - 1]
                  ELSE att[j]]
    /\ UNCHANGED <<osArgs, pc, addresses, idx, workers, workerChan, wg, stderr>>

\* Faulty variant of Report: the line is put before those already written.
ReportAtFront(i) ==
    /\ att[i].pc = "open"
    /\ stdout' = <<SuccessLine(att[i].address)>> \o stdout
    /\ att' = [j \in 1..Len(att) |->
                  IF j = i THEN [att[j] EXCEPT !.pc = "printed", !.rank = 0]
                  ELSE IF att[j].rank > att[i].rank THEN [att[j] EXCEPT !.rank = @ - 1]
                  ELSE att[j]]
    /\ UNCHANGED <<osArgs, pc, addresses, idx, workers, workerChan, wg, stderr>>

\* conn != nil: the SUCCESS line is written.
Report(i) ==
    /\ att[i].pc = "open"
    /\ stdout' = Append(stdout, SuccessLine(att[i].address))
    /\ att' = [j \in 1..Len(att) |->
                  IF j = i THEN [att[j] EXCEPT !.pc = "printed", !.rank = 0]
                  ELSE IF att[j].rank > att[i].rank THEN [att[j] EXCEPT !.rank = @ - 1]
                  ELSE att[j]]
    /\ UNCHANGED <<osArgs, pc, addresses, idx, workers, workerChan, wg, stderr>>

\* Faulty variant of Close: a failing Close ends the process (log.Fatal).
CloseFatal(i, failed) ==
    /\ att[i].pc = "printed"
    /\ stderr' = IF failed THEN Append(stderr, CloseErrorLine) ELSE stderr
    /\ pc' = IF failed THEN "fatal" ELSE pc
    /\ att' = [att EXCEPT ![i].pc = "ret"]
    /\ UNCHANGED <<osArgs, addresses, idx, workers, workerChan, wg, stdout>>

\* conn.Close(), and the diagnostic when it fails.
Close(i, failed) ==
    /\ att[i].pc = "printed"
    /\ stderr' = IF failed THEN Append(stderr, CloseErrorLine) ELSE stderr
    /\ att' = [att EXCEPT ![i].pc = "ret"]
    /\ UNCHANGED <<osArgs, pc, addresses, idx, workers, workerChan, wg, stdout>>

\* Faulty variant of Release: the receive is made only when conn != nil.
ReleaseOnSuccessOnly(i) ==
    /\ att[i].pc = "ret"
    /\ workerChan > 0
    /\ workerChan' = IF att[i].result = "success" THEN workerChan - 1 ELSE workerChan
    /\ att' = [att EXCEPT ![i].pc = "released"]
    /\ UNCHANGED <<osArgs, pc, addresses, idx, workers, wg, stdout, stderr>>

\* Faulty variant of Release: the function returns without receiving from workerChan.
ReleaseLeak(i) ==
    /\ att[i].pc = "ret"
    /\ att' = [att EXCEPT ![i].pc = "released"]
    /\ UNCHANGED <<osArgs, pc, addresses, idx, workers, workerChan, wg, stdout, stderr>>

\* The deferred <-workerChan, run when the function returns.
Release(i) ==
    /\ att[i].pc = "ret"
    /\ workerChan > 0
    /\ workerChan' = workerChan - 1
    /\ att' = [att EXCEPT ![i].pc = "released"]
    /\ UNCHANGED <<osArgs, pc, addresses, idx, workers, wg, stdout, stderr>>

\* The wg.Done() that wg.Go runs after the function.
Finish(i) ==
    /\ att[i].pc = "released"
    /\ wg' = wg - 1
    /\ att' = [att EXCEPT ![i].pc = "done"]
    /\ UNCHANGED <<osArgs, pc, addresses, idx, workers, workerChan, stdout, stderr>>

NextExpand ==
    \/ GetAddresses
    \/ Fatal

Next ==
    \/ GetAddresses
    \/ Fatal
    \/ Acquire
    \/ Spawn
    \/ ExitLoop
    \/ Wait
    \/ \E i \in 1..Len(att) : \E r \in DialResults : DialReturn(i, r)
    \/ \E i \in 1..Len(att) : Report(i)
    \/ \E i \in 1..Len(att) : \E failed \in BOOLEAN : Close(i, failed)
    \/ \E i \in 1..Len(att) : Release(i)
    \/ \E i \in 1..Len(att) : Finish(i)

Spec == Init /\ [][Next]_vars

SpecExpand == InitExpand /\ [][NextExpand]_vars

\* The steps of the main goroutine, and those of the goroutine of attempt i.
Main == GetAddresses \/ Fatal \/ Acquire \/ Spawn \/ ExitLoop \/ Wait

Attempt(i) ==
    /\ i \in 1..Len(att)
    /\ \/ \E r \in DialResults : DialReturn(i, r)
       \/ Report(i)
       \/ \E failed \in BOOLEAN : Close(i, failed)
       \/ Release(i)
       \/ Finish(i)

\* The Go scheduler runs every goroutine that can run, and DialTimeout
\* returns within the timeout.
Fairness == WF_vars(Main) /\ \A i \in 1..MaxFairAddrs : WF_vars(Attempt(i))

\* The runs checked for progress: those of at most MaxFairAddrs endpoints.
InitFair ==
    Start({a \in RunArgs : Len(a) < 2 \/ Len(getAddresses(a)) <= MaxFairAddrs},
          WorkerCounts)

FairSpec == InitFair /\ [][Next]_vars /\ Fairness

----------------------------------------------------------------------------
(* Reading the attempts, as the claims about the prober do *)

Attempts == 1..Len(att)

\* Attempt i has taken its slot and not given it back.
Holding(i) == att[i].pc \in {"admitted", "dial", "open", "printed", "ret"}

InFlight == Cardinality({i \in Attempts : Holding(i)})

Succeeded == {i \in Attempts : att[i].result = "success"}

FailedSet == {i \in Attempts : att[i].result \in {"refused", "timeout"}}

\* main is blocked sending on the full channel.
Blocked == pc = "loop" /\ idx < Len(addresses) /\ workerChan = workers

----------------------------------------------------------------------------
(* C1 *)

\* C1: in every reachable state, the attempts that have taken a slot on
\* workerChan and not yet released it number at most the capacity, and so
\* do the tokens in the channel.
C1_InFlightBounded == InFlight <= workers /\ workerChan <= workers

\* The pool is full of attempts while an endpoint still waits.
C1_Witness ==
    /\ Blocked
    /\ workers >= 2
    /\ InFlight = workers
    /\ \E i \in Attempts : att[i].pc = "dial"

----------------------------------------------------------------------------
(* C2 *)

\* C2: no endpoint is ever dialed twice, and when main has returned every
\* position of the endpoint sequence has been dialed exactly once, with its
\* own endpoint, and successes plus failures number the endpoints.
C2_EachEndpointDialedOnce ==
    /\ \A i \in Attempts : att[i].dials <= 1
    /\ pc = "done" =>
           /\ Len(att) = Len(addresses)
           /\ \A i \in 1..Len(addresses) :
                  att[i].dials = 1 /\ att[i].address = addresses[i]
           /\ Cardinality(Succeeded) + Cardinality(FailedSet) = Len(addresses)

\* A finished run with several endpoints, some open and some not.
C2_Witness ==
    /\ pc = "done"
    /\ Len(addresses) >= 2
    /\ Succeeded # {}
    /\ FailedSet # {}

----------------------------------------------------------------------------
(* C3 *)

\* C3: main has returned only if every endpoint was submitted and every
\* attempt has finished, past its SUCCESS line, its close and its release.
C3_DoneOnlyWhenDrained ==
    pc = "done" =>
        /\ Len(att) = Len(addresses)
        /\ \A i \in Attempts : att[i].pc = "done" /\ att[i].result # "none"
        /\ wg = 0

\* A finished run whose first endpoint was open and was followed by others.
C3_Witness ==
    /\ pc = "done"
    /\ Len(addresses) >= 2
    /\ att[1].result = "success"
    /\ att[Len(att)].result = "timeout"

----------------------------------------------------------------------------
(* C4 *)

\* C4: under fair scheduling, with every dial returning, a run that has a
\* host eventually returns from main, and a main blocked at the full
\* channel is eventually unblocked by a release.
C4_RunCompletes ==
    /\ <>(Len(osArgs) >= 2 => pc = "done")
    /\ Blocked ~> (workerChan < workers)

\* main is blocked at the full channel.
C4_Witness == Blocked /\ InFlight = workers

----------------------------------------------------------------------------
(* C5 *)

IsSuccessLineFor(line, address) ==
    /\ Len(line) = Len(address) + 10
    /\ SubSeq(line, 1, 9) = <<"S", "U", "C", "C", "E", "S", "S", ":", " ">>
    /\ SubSeq(line, 10, Len(line) - 1) = address
    /\ line[Len(line)] = "\n"

LinesFor(address) ==
    {k \in 1..Len(stdout) : IsSuccessLineFor(stdout[k], address)}

\* C5: when main has returned, standard output holds one SUCCESS line per
\* endpoint position whose dial succeeded, naming its host:port, and
\* nothing else: no line for an endpoint whose dial was refused or timed out.
C5_OneLinePerOpenEndpoint ==
    pc = "done" =>
        /\ Len(stdout) = Cardinality(Succeeded)
        /\ \A k \in 1..Len(stdout) :
               \E i \in Succeeded : IsSuccessLineFor(stdout[k], addresses[i])
        /\ \A i \in 1..Len(addresses) :
               Cardinality(LinesFor(addresses[i])) =
                   Cardinality({j \in Succeeded : addresses[j] = addresses[i]})

\* A finished run with an open, a refusing and a silent endpoint.
C5_Witness ==
    /\ pc = "done"
    /\ Len(stdout) = 1
    /\ \E i \in Attempts : att[i].result = "success"
    /\ \E i \in Attempts : att[i].result = "refused"
    /\ \E i \in Attempts : att[i].result = "timeout"

----------------------------------------------------------------------------
(* Reading an endpoint and a token, as the claims about the expander do *)

\* An optional sign and one or more digits.
IsNumber(t) ==
    LET body == IF Len(t) > 0 /\ t[1] \in {"+", "-"} THEN Tail(t) ELSE t
    IN  Len(body) > 0 /\ \A k \in 1..Len(body) : body[k] \in DigitSet

NumberOf(t) ==
    IF t[1] = "-" THEN 0 - DecValue(Tail(t))
    ELSE IF t[1] = "+" THEN DecValue(Tail(t))
    ELSE DecValue(t)

LastColon(e) ==
    CHOOSE k \in 1..Len(e) : e[k] = ":" /\ \A j \in (k + 1)..Len(e) : e[j] # ":"

\* The port a dial of endpoint e goes to.
PortText(e) == SubSeq(e, LastColon(e) + 1, Len(e))

PortNumber(e) == NumberOf(PortText(e))

\* The host a dial of endpoint e goes to.
HostText(e) ==
    LET h == SubSeq(e, 1, LastColon(e) - 1)
    IN  IF Len(h) >= 2 /\ h[1] = "[" /\ h[Len(h)] = "]"
        THEN SubSeq(h, 2, Len(h) - 1)
        ELSE h

Has(t, c) == \E k \in 1..Len(t) : t[k] = c

Expanded == pc = "loop"

HasHost == Len(osArgs) >= 2

HasPortArg == Len(osArgs) >= 3

\* What getAddresses returns for the command line: the value main is about
\* to receive while at its start, the value of addresses afterwards.
Returned == IF pc = "start" THEN getAddresses(osArgs) ELSE addresses

\* The port argument is one token: it holds no comma.
OneToken == HasPortArg /\ ~Has(osArgs[3], ",")

\* The port argument is one token low-high of two numbers.
OneRange ==
    /\ OneToken
    /\ Len(Split(osArgs[3], "-")) = 2
    /\ IsNumber(Split(osArgs[3], "-")[1])
    /\ IsNumber(Split(osArgs[3], "-")[2])

Low == NumberOf(Split(osArgs[3], "-")[1])

High == NumberOf(Split(osArgs[3], "-")[2])

InPortRange(n) == 1 <= n /\ n <= 65535

PortsOf(list) == {PortNumber(list[k]) : k \in 1..Len(list)}

----------------------------------------------------------------------------
(* C6 *)

\* C6: with the host as only argument, getAddresses yields exactly 65535
\* endpoints, the k-th of them for port k: ports 1 to 65535 in ascending
\* order without duplicates, port 1 and port 65535 present, port 0 absent.
C6_FullScanCoversAllPorts ==
    (HasHost /\ Len(osArgs) = 2) =>
        LET list == Returned
        IN  /\ Len(list) = 65535
            /\ \A k \in 1..Len(list) : PortNumber(list[k]) = k
            /\ \E k \in 1..Len(list) : PortNumber(list[k]) = 1
            /\ \E k \in 1..Len(list) : PortNumber(list[k]) = 65535
            /\ \A k \in 1..Len(list) : PortNumber(list[k]) # 0

----------------------------------------------------------------------------
(* C7 *)

\* A token of two pieces around one "-", one of which is no number or lies
\* outside 1..65535.
BadRangeBound ==
    /\ OneToken
    /\ Len(Split(osArgs[3], "-")) = 2
    /\ \E k \in 1..2 :
           LET t == Split(osArgs[3], "-")[k]
           IN  ~IsNumber(t) \/ ~InPortRange(NumberOf(t))

\* C7: a range token with a bound that does not parse or lies outside
\* 1..65535 contributes no endpoint, and no emitted port is below 1 or
\* above 65535.
C7_RangeBoundsChecked ==
    HasPortArg =>
        LET list == Returned
        IN  /\ BadRangeBound => list = <<>>
            /\ \A k \in 1..Len(list) : InPortRange(PortNumber(list[k]))

----------------------------------------------------------------------------
(* C8 *)

ValidRange == OneRange /\ 1 <= Low /\ Low <= High /\ High <= 65535

\* C8: a range token low-high with 1 <= low <= high <= 65535 yields exactly
\* high - low + 1 ports, each in low..high, pairwise distinct, low and high
\* among them.
C8_ValidRangeExpands ==
    ValidRange =>
        LET list  == Returned
            ports == PortsOf(list)
        IN  /\ Len(list) = High - Low + 1
            /\ ports \subseteq Low..High
            /\ Cardinality(ports) = Len(list)
            /\ Low \in ports
            /\ High \in ports

\* The two highest ports have been expanded from one range token.
C8_Witness ==
    /\ Expanded
    /\ ValidRange
    /\ Low = 65534
    /\ High = 65535
    /\ Len(addresses) = 2

----------------------------------------------------------------------------
(* C9 *)

\* The malformed tokens: empty, non-numeric, a single number outside
\* 1..65535, a reversed range, more than one "-".
MalformedToken(t) ==
    LET parts == Split(t, "-")
    IN  \/ t = <<>>
        \/ Len(parts) > 2
        \/ Len(parts) = 1 /\ (~IsNumber(t) \/ ~InPortRange(NumberOf(t)))
        \/ Len(parts) = 2 /\ (~IsNumber(parts[1]) \/ ~IsNumber(parts[2]))
        \/ /\ Len(parts) = 2
           /\ IsNumber(parts[1])
           /\ IsNumber(parts[2])
           /\ NumberOf(parts[1]) > NumberOf(parts[2])

ArgTokens == Split(osArgs[3], ",")

Without(seq, j) == SubSeq(seq, 1, j - 1) \o SubSeq(seq, j + 1, Len(seq))

WellFormedTokens == SelectSeq(ArgTokens, LAMBDA t : ~MalformedToken(t))

SomeMalformed == \E j \in 1..Len(ArgTokens) : MalformedToken(ArgTokens[j])

\* C9: the endpoints of a port argument are those of the argument without
\* any one of its malformed tokens, and those of the argument without all
\* of them: a malformed token contributes nothing and leaves the
\* contribution of its siblings alone.
C9_MalformedTokensDropped ==
    (HasPortArg /\ SomeMalformed) =>
        LET list == Returned
        IN  /\ \A j \in 1..Len(ArgTokens) :
                   MalformedToken(ArgTokens[j]) =>
                       list = getAddresses(
                           <<osArgs[1], osArgs[2], Join(Without(ArgTokens, j), ",")>>)
            /\ list = getAddresses(
                   <<osArgs[1], osArgs[2], Join(WellFormedTokens, ",")>>)
            /\ (\A j \in 1..Len(ArgTokens) : MalformedToken(ArgTokens[j])) =>
                   list = <<>>

\* A malformed token stands before a well-formed one, whose ports are emitted.
C9_Witness ==
    /\ Expanded
    /\ HasPortArg
    /\ Len(ArgTokens) = 2
    /\ MalformedToken(ArgTokens[1])
    /\ ~MalformedToken(ArgTokens[2])
    /\ Len(addresses) = 2

----------------------------------------------------------------------------
(* C10 *)

SinglePort ==
    /\ OneToken
    /\ ~Has(osArgs[3], "-")
    /\ IsNumber(osArgs[3])
    /\ InPortRange(NumberOf(osArgs[3]))

\* C10: a single-port token p, a decimal integer in 1..65535, yields exactly
\* one endpoint, which is port p on the given host.
C10_SinglePortExpands ==
    SinglePort =>
        LET list == Returned
        IN  /\ Len(list) = 1
            /\ HostText(list[1]) = osArgs[2]
            /\ PortNumber(list[1]) = NumberOf(osArgs[3])

\* The highest port alone, on the bracketed host.
C10_Witness ==
    /\ Expanded
    /\ SinglePort
    /\ NumberOf(osArgs[3]) = 65535
    /\ osArgs[2] = <<":", ":", "1">>
    /\ Len(addresses) = 1

----------------------------------------------------------------------------
(* C11 *)

\* A valid token: one number in 1..65535, or low-high of two numbers with
\* 1 <= low <= high <= 65535.
ValidToken(t) ==
    LET parts == Split(t, "-")
    IN  \/ Len(parts) = 1 /\ IsNumber(t) /\ InPortRange(NumberOf(t))
        \/ /\ Len(parts) = 2
           /\ IsNumber(parts[1])
           /\ IsNumber(parts[2])
           /\ InPortRange(NumberOf(parts[1]))
           /\ InPortRange(NumberOf(parts[2]))
           /\ NumberOf(parts[1]) <= NumberOf(parts[2])

\* The ports of a token in ascending order; none for an invalid token.
TokenPorts(t) ==
    LET parts == Split(t, "-")
    IN  IF ~ValidToken(t) THEN <<>>
        ELSE IF Len(parts) = 1 THEN <<NumberOf(t)>>
        ELSE <<>> \o [k \in 1..(NumberOf(parts[2]) - NumberOf(parts[1]) + 1) |->
                         NumberOf(parts[1]) + k - 1]

RECURSIVE ConcatPorts(_)
ConcatPorts(tokens) ==
    IF tokens = <<>> THEN <<>>
    ELSE TokenPorts(Head(tokens)) \o ConcatPorts(Tail(tokens))

RECURSIVE SumSizes(_)
SumSizes(tokens) ==
    IF tokens = <<>> THEN 0
    ELSE Len(TokenPorts(Head(tokens))) + SumSizes(Tail(tokens))

\* C11: the endpoints of a port argument are, on the given host, the ports of
\* its valid tokens concatenated in token order, each token's ports ascending;
\* their number is the sum of the sizes of the valid tokens.
C11_ConcatenationOfValidTokens ==
    HasPortArg =>
        LET list == Returned
        IN  /\ Len(list) = SumSizes(ArgTokens)
            /\ <<>> \o [k \in 1..Len(list) |-> PortNumber(list[k])] = ConcatPorts(ArgTokens)
            /\ \A k \in 1..Len(list) : HostText(list[k]) = osArgs[2]

----------------------------------------------------------------------------
(* C12 *)

\* C12: without a host argument the process ends at the usage message, which
\* is all it writes: no endpoint exists, no slot is taken, no attempt is
\* started, nothing is on stdout, and nothing happens after the exit.
C12_MissingHostStopsAtUsage ==
    ~HasHost =>
        /\ pc \in {"start", "fatal"}
        /\ addresses = <<>>
        /\ att = <<>>
        /\ idx = 0
        /\ workerChan = 0
        /\ wg = 0
        /\ stdout = <<>>
        /\ stderr = IF pc = "fatal" THEN <<UsageLine>> ELSE <<>>
        /\ pc = "fatal" => ~ENABLED Next

\* The process has exited on the usage message.
C12_Witness ==
    /\ ~HasHost
    /\ pc = "fatal"
    /\ stderr = <<UsageLine>>

----------------------------------------------------------------------------
(* C13 *)

\* Some Close has failed in this run.
CloseFailed == \E k \in 1..Len(stderr) : stderr[k] = CloseErrorLine

\* Attempt i leaves conn.Close() with an error in this step.
CloseFails(i) ==
    /\ att[i].pc = "printed"
    /\ att'[i].pc # "printed"
    /\ stderr' # stderr

\* C13: a failing Close of a connected attempt leaves its verdict alone: its
\* SUCCESS line is on stdout and stdout only ever grows, the diagnostic goes
\* to stderr alone, the attempt goes on to its return with its slot still to
\* give back, the process is not ended by it, main returns only with every
\* attempt finished and no slot held, and main does return.
C13_CloseErrorKeepsVerdict ==
    /\ [][\A i \in 1..Len(att) :
              CloseFails(i) =>
                  /\ att[i].result = "success"
                  /\ LinesFor(att[i].address) # {}
                  /\ stdout' = stdout
                  /\ stderr' = Append(stderr, CloseErrorLine)
                  /\ att'[i] = [att[i] EXCEPT !.pc = "ret"]
                  /\ workerChan' = workerChan
                  /\ workerChan' >= 1
                  /\ <<pc, wg>>' = <<pc, wg>>]_vars
    /\ [][SubSeq(stdout', 1, Len(stdout)) = stdout]_vars
    /\ [](CloseFailed => pc # "fatal")
    /\ []((CloseFailed /\ pc = "done") =>
              /\ workerChan = 0
              /\ wg = 0
              /\ \A i \in 1..Len(att) : att[i].pc = "done")
    /\ CloseFailed ~> (pc = "done")

\* Main has returned from a run in which a Close failed after its SUCCESS line.
C13_Witness ==
    /\ pc = "done"
    /\ CloseFailed
    /\ Len(stdout) >= 1
    /\ workerChan = 0

----------------------------------------------------------------------------
(* C14 *)

\* The status of endpoint i when the attempts are a.
Status(a, i) ==
    IF i > Len(a) THEN "pending"
    ELSE IF a[i].result = "none" THEN "in-flight"
    ELSE IF a[i].result = "success" THEN "succeeded"
    ELSE "failed"

\* C14: every endpoint moves only from pending to in-flight and from
\* in-flight to succeeded or failed; a succeeded or failed endpoint stays as
\* it is, and its dial, made once, is never made again.
C14_StatusOnlyAdvances ==
    /\ [][\A i \in 1..Len(addresses') :
              LET s == Status(att, i)
                  t == Status(att', i)
              IN  /\ \/ t = s
                     \/ s = "pending" /\ t = "in-flight"
                     \/ s = "in-flight" /\ t \in {"succeeded", "failed"}
                  /\ s \in {"succeeded", "failed"} =>
                         /\ att'[i].result = att[i].result
                         /\ att'[i].dials = att[i].dials
                         /\ att'[i].pc # "dial"]_vars
    /\ [](\A i \in 1..Len(att) :
              /\ att[i].dials = IF att[i].result = "none" THEN 0 ELSE 1
              /\ att[i].result # "none" => att[i].pc \notin {"admitted", "dial"})

\* One endpoint has succeeded, one has failed, one is in flight.
C14_Witness ==
    /\ Len(att) = 3
    /\ Status(att, 1) = "failed"
    /\ Status(att, 2) = "in-flight"
    /\ Status(att, 3) = "succeeded"

----------------------------------------------------------------------------
(* C15 *)

\* A port argument is given and none of its tokens is valid.
AllInvalid == HasPortArg /\ \A j \in 1..Len(ArgTokens) : ~ValidToken(ArgTokens[j])

\* C15: when a port argument is given and every token of it is invalid, the
\* endpoint sequence is empty (no fall-back to the full range), no slot is
\* taken and no attempt started, main goes straight through the loop and the
\* wait, and nothing is written to stdout or stderr.
C15_AllInvalidYieldsNothing ==
    AllInvalid =>
        /\ Returned = <<>>
        /\ att = <<>>
        /\ workerChan = 0
        /\ wg = 0
        /\ pc \in {"start", "loop", "wait", "done"}
        /\ stdout = <<>>
        /\ stderr = <<>>

----------------------------------------------------------------------------
(* C16 *)

\* The SUCCESS line of attempt i has been written.
Reported(i) ==
    att[i].result = "success" /\ att[i].pc \in {"printed", "ret", "released", "done"}

\* Attempt i has given its slot back.
Released(i) == att[i].pc \in {"released", "done"}

\* C16, as claimed: a successful attempt has given its slot back by the time
\* its SUCCESS line is written, so the lines on stdout never outnumber the
\* slots given back.
C16_ReleaseBeforeReport ==
    /\ \A i \in Attempts : Reported(i) => Released(i)
    /\ Len(stdout) <= Len(att) - workerChan

\* C16, amended: the slot of an attempt is given back when its function
\* returns, after the SUCCESS line and the Close of a successful attempt:
\* while an attempt holds a connection its token is still in the channel, and
\* every step that takes a token out is the return of an attempt whose
\* line, if its dial succeeded, is already on stdout.
C16_ReleaseAfterReport ==
    /\ [](workerChan >= Cardinality({i \in Attempts : att[i].pc \in {"open", "printed"}}))
    /\ [](\A i \in Attempts :
              (Released(i) /\ att[i].result = "success") =>
                  Cardinality(LinesFor(att[i].address)) >=
                      Cardinality({j \in Attempts : /\ att[j].address = att[i].address
                                                    /\ att[j].result = "success"
                                                    /\ Released(j)}))
    /\ [][workerChan' < workerChan =>
              \E i \in Attempts :
                  /\ att[i].pc = "ret"
                  /\ att'[i].pc = "released"
                  /\ att[i].result = "success" => LinesFor(att[i].address) # {}]_vars

\* With one worker, the first attempt has written its line and still holds
\* the only slot, so that main is blocked on the next send.
C16_Witness ==
    /\ workers = 1
    /\ Blocked
    /\ Len(att) = 1
    /\ att[1].pc = "printed"
    /\ Len(stdout) = 1
    /\ workerChan = 1

----------------------------------------------------------------------------
(* C17 *)

\* C17: slots are taken in the order of the endpoint sequence: the step that
\* admits an attempt admits exactly one, for the earliest endpoint not yet
\* admitted, with every earlier endpoint admitted before it; so the k-th
\* attempt admitted is for the k-th endpoint, also when the admission had to
\* wait for a release.
C17_AdmissionInSequenceOrder ==
    /\ [][Len(att') # Len(att) =>
              /\ Len(att') = Len(att) + 1
              /\ Len(att) = idx
              /\ workerChan < workers
              /\ workerChan' = workerChan + 1
              /\ att'[Len(att')].address = addresses[idx + 1]
              /\ \A k \in 1..Len(att) : att'[k] = att[k]]_vars
    /\ [](\A k \in Attempts : att[k].address = addresses[k])
    /\ [](Len(att) \in {idx, idx + 1} /\ Len(att) <= Len(addresses))

\* With one worker and three distinct endpoints, the second endpoint has
\* been admitted after the release of the first, and the third waits.
C17_Witness ==
    /\ workers = 1
    /\ Len(addresses) = 3
    /\ addresses[1] # addresses[2]
    /\ addresses[2] # addresses[3]
    /\ Len(att) = 2
    /\ Released(1)
    /\ att[2].pc = "dial"
    /\ Blocked

----------------------------------------------------------------------------
(* C18 *)

\* Attempt i writes its SUCCESS line in this step.
Writes(i) == att[i].pc = "open" /\ att'[i].pc = "printed"

\* C18, as claimed: SUCCESS lines are written in the order in which the
\* dials returned: the attempt that writes is the one whose dial returned
\* first among those that hold a connection and have not yet written.
C18_LinesInConnectOrder ==
    [][\A i \in Attempts :
           Writes(i) => \A j \in Unreported : att[i].rank <= att[j].rank]_vars

\* C18, amended: SUCCESS lines are in the order in which the attempts write
\* them: every change of stdout appends one line at its end, written by an
\* attempt whose own dial has returned a connection; which of several such
\* attempts writes next is open, whatever the order of the dials' returns
\* and of the input.
C18_LinesInWriteOrder ==
    [][stdout' # stdout =>
           \E i \in Attempts :
               /\ Writes(i)
               /\ att[i].result = "success"
               /\ att[i].rank \in 1..Cardinality(Unreported)
               /\ stdout' = Append(stdout, SuccessLine(att[i].address))]_vars

\* With two workers and two open endpoints, main has returned with the two
\* lines in the reverse of the input order.
C18_Witness ==
    /\ pc = "done"
    /\ workers = 2
    /\ Len(addresses) = 2
    /\ addresses[1] # addresses[2]
    /\ stdout = <<SuccessLine(addresses[2]), SuccessLine(addresses[1])>>

----------------------------------------------------------------------------
(* C19 *)

\* C19: only the capacity gate holds the loop back: whenever an endpoint is
\* still to be admitted and fewer than W attempts hold a slot, the send on
\* workerChan can be made at once, and the go statement after it can always
\* be made, whatever the attempts in flight are doing.
C19_OnlyCapacityBlocks ==
    /\ (pc = "loop" /\ idx < Len(addresses) /\ InFlight < workers) => ENABLED Acquire
    /\ pc = "go" => ENABLED Spawn

\* With room in the channel, the third endpoint can be admitted while the
\* first attempt is dialing and the second has yet to close its connection.
C19_Witness ==
    /\ pc = "loop"
    /\ Len(addresses) = 3
    /\ idx = 2
    /\ att[1].pc = "dial"
    /\ att[2].pc = "printed"
    /\ InFlight < workers
    /\ ENABLED Acquire

----------------------------------------------------------------------------
(* C20 *)

\* The attempts started with wg.Go whose wg.Done has not run.
Unfinished ==
    Cardinality({i \in Attempts : att[i].pc \in {"dial", "open", "printed", "ret", "released"}})

\* C20: the tokens in workerChan are those of the attempts admitted and not
\* yet released; a token goes in only with the admission of one attempt and
\* comes out only with the return of one attempt; an attempt is counted as
\* finished by the wait group only after its release; when main has
\* returned, the channel is empty.
C20_SlotsConserved ==
    /\ [](workerChan = InFlight)
    /\ [](wg = Unfinished)
    /\ [](idx - wg <= Len(att) - workerChan)
    /\ [](pc = "done" => workerChan = 0 /\ wg = 0)
    /\ [][/\ workerChan' > workerChan =>
              /\ workerChan' = workerChan + 1
              /\ Len(att') = Len(att) + 1
              /\ att'[Len(att')].pc = "admitted"
          /\ workerChan' < workerChan =>
              /\ workerChan' = workerChan - 1
              /\ Cardinality({i \in Attempts : att[i].pc = "ret" /\ att'[i].pc = "released"}) = 1
              /\ wg' = wg
          /\ wg' < wg =>
              /\ wg' = wg - 1
              /\ workerChan' = workerChan
              /\ \E i \in Attempts : att[i].pc = "released" /\ att'[i].pc = "done"]_vars

\* With one worker, the one slot has served three attempts, failed and
\* successful, and main has returned with the channel empty.
C20_Witness ==
    /\ pc = "done"
    /\ workers = 1
    /\ Len(att) = 3
    /\ Succeeded # {}
    /\ FailedSet # {}
    /\ workerChan = 0

----------------------------------------------------------------------------
(* C21 *)

\* C21: an attempt keeps the endpoint of its own loop iteration: the address
\* it holds never changes, the address its dial was called with and the one
\* in the SUCCESS line it writes are the endpoint admitted with its slot,
\* wherever the loop of main stands by then.
C21_OwnEndpointThroughout ==
    /\ [](\A i \in Attempts :
              /\ att[i].address = addresses[i]
              /\ att[i].dials > 0 => att[i].dialed = addresses[i])
    /\ [][\A i \in Attempts :
              /\ att'[i].address = att[i].address
              /\ Writes(i) => stdout' = Append(stdout, SuccessLine(addresses[i]))]_vars

\* The loop has admitted the last of three endpoints, which differs from the
\* first and whose dial is under way, and the first attempt has written the
\* line of the first.
C21_Witness ==
    /\ Len(addresses) = 3
    /\ addresses[1] # addresses[3]
    /\ idx = 3
    /\ att[3].pc = "dial"
    /\ att[1].pc = "printed"
    /\ att[1].dialed = addresses[1]
    /\ stdout = <<SuccessLine(addresses[1])>>

----------------------------------------------------------------------------
(* C22 *)

\* How often x occurs in seq.
Count(seq, x) == Cardinality({k \in 1..Len(seq) : seq[k] = x})

\* Some port is named more than once by the tokens of the port argument.
NamedTwice ==
    /\ HasPortArg
    /\ \E k \in 1..Len(ConcatPorts(ArgTokens)) :
           Count(ConcatPorts(ArgTokens), ConcatPorts(ArgTokens)[k]) > 1

\* C22: a port named by several tokens is in the endpoint sequence that
\* getAddresses returns once per occurrence; when main has returned, each
\* occurrence has been dialed on its own, and the SUCCESS lines of an
\* endpoint are as many as the occurrences of it whose dial succeeded.
C22_NoDeduplication ==
    (pc \in {"start", "done"} /\ NamedTwice) =>
        LET list  == Returned
            named == ConcatPorts(ArgTokens)
            ports == <<>> \o [k \in 1..Len(list) |-> PortNumber(list[k])]
        IN  /\ Len(list) = Len(named)
            /\ \A k \in 1..Len(named) : Count(ports, named[k]) = Count(named, named[k])
            /\ pc = "done" =>
                   /\ Len(att) = Len(list)
                   /\ \A k \in 1..Len(list) :
                          /\ att[k].dials = 1
                          /\ att[k].dialed = list[k]
                          /\ Cardinality(LinesFor(list[k])) =
                                 Cardinality({j \in Succeeded : att[j].address = list[k]})

\* The port argument names port 1 twice, both dials have succeeded and main
\* has returned with two SUCCESS lines for the one endpoint.
C22_Witness ==
    /\ pc = "done"
    /\ NamedTwice
    /\ Len(addresses) = 2
    /\ addresses[1] = addresses[2]
    /\ Cardinality(Succeeded) = 2
    /\ stdout = <<SuccessLine(addresses[1]), SuccessLine(addresses[1])>>

----------------------------------------------------------------------------
(* C23 *)

\* A canonical decimal: digits only, no sign, no leading zero.
Canonical(t) ==
    /\ Len(t) > 0
    /\ \A k \in 1..Len(t) : t[k] \in DigitSet
    /\ Len(t) > 1 => t[1] # "0"

\* C23: the endpoint of a valid single-port token carries the text of the
\* token as it was written, canonical or not; the endpoints of a valid range
\* token carry canonical decimals, however its bounds were written.
C23_SingleVerbatimRangeCanonical ==
    LET list == Returned
    IN  /\ SinglePort =>
               /\ Len(list) = 1
               /\ PortText(list[1]) = osArgs[3]
        /\ ValidRange =>
               \A k \in 1..Len(list) : Canonical(PortText(list[k]))

\* The range 02-02 has been expanded to the endpoint h:2, where the single
\* token 02, which names the same port, gives the endpoint h:02.
C23_Witness ==
    /\ Expanded
    /\ ValidRange
    /\ ~Canonical(Split(osArgs[3], "-")[1])
    /\ Low = High
    /\ Len(addresses) = 1
    /\ Canonical(PortText(addresses[1]))
    /\ LET single == getAddresses(<<osArgs[1], osArgs[2], Split(osArgs[3], "-")[1]>>)
       IN  /\ Len(single) = 1
           /\ PortNumber(single[1]) = PortNumber(addresses[1])
           /\ ~Canonical(PortText(single[1]))
           /\ single[1] # addresses[1]

====
